---- MODULE Spec2Model ----
(***************************************************************************)
(* Model of supersetapiclient/base.py: the Object entity contract, the     *)
(* ObjectFactories collection contract and raise_for_status, over a        *)
(* transport whose responses are chosen nondeterministically.              *)
(***************************************************************************)
EXTENDS Integers, Sequences, FiniteSets, TLC

----------------------------------------------------------------------------
(* Python values.  Every value is a record of one shape, so that values of *)
(* different Python types can be compared.                                 *)

None == [k |-> "none", s |-> "", n |-> 0]
PyStr(x) == [k |-> "str", s |-> x, n |-> 0]
PyInt(i) == [k |-> "int", s |-> "", n |-> i]
PyBool(b) == [k |-> "bool", s |-> "", n |-> IF b THEN 1 ELSE 0]
\* the two decoded structures of the model: {} and {"a": 1}
EmptyDict == [k |-> "dict", s |-> "", n |-> 0]
DictA1 == [k |-> "dict", s |-> "a", n |-> 1]
\* the list [{"field": "x"}] of a structured error body
ErrList == [k |-> "list", s |-> "field x", n |-> 1]
\* python bytes of a zip archive (no text, no JSON, no YAML)
ZipBytes == [k |-> "bytes", s |-> "PK", n |-> 0]
\* a key that is not in a dict / a value that does not exist
Absent == [k |-> "absent", s |-> "", n |-> 0]

\* the elements of a list
Range(seq) == {seq[i] : i \in 1..Len(seq)}

\* Python truthiness, as used by `x or "{}"`
Falsy(v) ==
    \/ v.k = "none"
    \/ v.k = "str" /\ v.s = ""
    \/ v.k = "dict" /\ v = EmptyDict
    \/ v.k \in {"int", "bool"} /\ v.n = 0

----------------------------------------------------------------------------
(* Outcomes of a call: it returns, or it raises an exception that may      *)
(* carry a value (the message / errors of the typed errors).               *)

Returned == [raised |-> FALSE, exc |-> "", carried |-> Absent]
Raise(e, c) == [raised |-> TRUE, exc |-> e, carried |-> c]

----------------------------------------------------------------------------
(* json.dumps / json.loads on the texts and values of the model.           *)

TxtEmptyObj == "{}"
TxtA1 == "{\"a\": 1}"
TxtNull == "null"
TxtGarbage == "not json"
TxtYamlA1 == "a: 1"

\* json.dumps(v): the JSON text of a value
dumps(v) ==
    CASE v.k = "none" -> TxtNull
      [] v.k = "dict" /\ v = EmptyDict -> TxtEmptyObj
      [] v.k = "dict" /\ v = DictA1 -> TxtA1
      [] v.k = "int" -> IF v.n = 1 THEN "1" ELSE IF v.n = 2 THEN "2" ELSE "0"
      [] v.k = "bool" -> IF v.n = 1 THEN "true" ELSE "false"
      [] v.k = "str" /\ v.s = TxtA1 -> "\"{\\\"a\\\": 1}\""
      [] v.k = "str" /\ v.s # TxtA1 -> "\"" \o v.s \o "\""
      [] OTHER -> "[{\"field\": \"x\"}]"

\* json.loads(x) of a python value x: [raised, exc, value]
loads(x) ==
    IF x.k # "str" THEN [raised |-> TRUE, exc |-> "TypeError", value |-> Absent]
    ELSE CASE x.s = TxtEmptyObj -> [raised |-> FALSE, exc |-> "", value |-> EmptyDict]
           [] x.s = TxtA1 -> [raised |-> FALSE, exc |-> "", value |-> DictA1]
           [] x.s = TxtNull -> [raised |-> FALSE, exc |-> "", value |-> None]
           [] x.s = "1" -> [raised |-> FALSE, exc |-> "", value |-> PyInt(1)]
           [] x.s = "2" -> [raised |-> FALSE, exc |-> "", value |-> PyInt(2)]
           [] x.s = "\"\"" -> [raised |-> FALSE, exc |-> "", value |-> PyStr("")]
           [] x.s = "\"A\"" -> [raised |-> FALSE, exc |-> "", value |-> PyStr("A")]
           [] x.s = "\"{}\"" -> [raised |-> FALSE, exc |-> "", value |-> PyStr(TxtEmptyObj)]
           [] x.s = "\"null\"" -> [raised |-> FALSE, exc |-> "", value |-> PyStr(TxtNull)]
           [] x.s = "\"{\\\"a\\\": 1}\"" -> [raised |-> FALSE, exc |-> "", value |-> PyStr(TxtA1)]
           [] OTHER -> [raised |-> TRUE, exc |-> "JSONDecodeError", value |-> Absent]

----------------------------------------------------------------------------
(* Responses of the transport.  A body is                                  *)
(*   parsable: response.json() succeeds                                    *)
(*   dict:     the decoded JSON is an object                               *)
(*   message, errors: the values of these keys, Absent when missing        *)
(*   has, payload: whether the key the operation reads ("result", "id",    *)
(*             "count") is there, and its value                            *)

Statuses == {200, 201, 404, 422}

\* requests.Response.raise_for_status raises HTTPError for 4xx and 5xx
HTTPFails(status) == status >= 400 /\ status < 600

Body(p, d, m, e, h, x) ==
    [parsable |-> p, dict |-> d, message |-> m, errors |-> e, has |-> h, payload |-> x]

Messages == {PyStr("bad field"), PyStr("OK")}

\* response.json()[key] for key in {"message", "errors"}: the value, or Absent
\* when the lookup raises (unparsable body, not an object, missing key)
Subscript(body, key) ==
    IF ~body.parsable \/ ~body.dict THEN Absent
    ELSE IF key = "message" THEN body.message ELSE body.errors

\* response.json().get("message")
GetMessage(body) == IF body.message = Absent THEN None ELSE body.message

\* raise_for_status that looks for "errors" before "message"
raise_for_status_errors_first(response) ==
    IF ~HTTPFails(response.status) THEN Returned
    ELSE IF Subscript(response.body, "errors") # Absent
         THEN Raise("ComplexBadRequestError", Subscript(response.body, "errors"))
    ELSE IF Subscript(response.body, "message") # Absent
         THEN Raise("BadRequestError", Subscript(response.body, "message"))
    ELSE Raise("HTTPError", Absent)

raise_for_status(response) ==
    IF ~HTTPFails(response.status) THEN Returned
    ELSE IF Subscript(response.body, "message") # Absent
         THEN Raise("BadRequestError", Subscript(response.body, "message"))
    ELSE IF Subscript(response.body, "errors") # Absent
         THEN Raise("ComplexBadRequestError", Subscript(response.body, "errors"))
    ELSE Raise("HTTPError", Absent)

----------------------------------------------------------------------------
(* Object: the entity type the collection produces.  Its dataclass fields  *)
(* are id, name and params; params is its one JSON-string field.           *)

field_names == {"id", "name", "params"}
JSON_FIELDS == <<"params">>

\* the dataclass defaults: None, default_string() and json_field()
Default(f) == IF f = "name" THEN PyStr("") ELSE None

\* a python dict with no keys
EmptyJson == [x \in {} |-> None]

\* the result of a call that builds no object
NoObj == [id |-> Absent, name |-> Absent, params |-> Absent, parent |-> FALSE]

RECURSIVE post_init_loop(_, _)
post_init_loop(obj, i) ==
    IF i > Len(JSON_FIELDS) THEN [raised |-> FALSE, exc |-> "", obj |-> obj]
    ELSE LET f == JSON_FIELDS[i]
             v == obj[f]
             r == loads(IF Falsy(v) THEN PyStr(TxtEmptyObj) ELSE v)
         IN IF r.raised THEN [raised |-> TRUE, exc |-> r.exc, obj |-> NoObj]
            ELSE post_init_loop([obj EXCEPT ![f] = r.value], i + 1)

\* Object.__post_init__
post_init(obj) == post_init_loop(obj, 1)

\* cls(**kw): the dataclass __init__ (a keyword that is no field is a
\* TypeError), then __post_init__.  _parent is the class attribute None.
construct(kw) ==
    IF ~(DOMAIN kw \subseteq field_names)
    THEN [raised |-> TRUE, exc |-> "TypeError", obj |-> NoObj]
    ELSE post_init([id |-> IF "id" \in DOMAIN kw THEN kw["id"] ELSE Default("id"),
                    name |-> IF "name" \in DOMAIN kw THEN kw["name"] ELSE Default("name"),
                    params |-> IF "params" \in DOMAIN kw THEN kw["params"] ELSE Default("params"),
                    parent |-> FALSE])

\* Object.from_json
from_json(json) ==
    construct([k \in DOMAIN json \cap field_names |-> json[k]])

\* hasattr(self, c), for the column names a server sends
hasattr(obj, c) == c \in field_names

RECURSIVE to_json_loop(_, _, _, _)
to_json_loop(obj, columns, i, o) ==
    IF i > Len(columns) THEN o
    ELSE LET c == columns[i] IN
         IF ~hasattr(obj, c) THEN to_json_loop(obj, columns, i + 1, o)
         ELSE LET value == IF \E j \in 1..Len(JSON_FIELDS) : JSON_FIELDS[j] = c
                           THEN PyStr(dumps(obj[c])) ELSE obj[c]
              IN to_json_loop(obj, columns, i + 1,
                              [k \in DOMAIN o \cup {c} |-> IF k = c THEN value ELSE o[k]])

\* to_json that does not encode the JSON-string fields
to_json_raw(obj, columns) ==
    [c \in Range(columns) \cap field_names |-> obj[c]]

\* Object.to_json
to_json(obj, columns) == to_json_loop(obj, columns, 1, EmptyJson)

\* the declared fields of an object
Declared(obj) == [f \in field_names |-> obj[f]]

----------------------------------------------------------------------------
(* Payloads the server sends.                                              *)

RowA == [id |-> PyInt(1), name |-> PyStr("A"), params |-> PyStr(TxtA1), changed_on |-> PyStr("A")]
RowNull == [id |-> PyInt(2), params |-> None]
RowBad == [params |-> PyStr(TxtGarbage)]

\* keyword arguments of a caller who builds an unsaved object
Kwargs == {[name |-> PyStr("A")],
           [params |-> EmptyDict],
           [params |-> DictA1],
           [id |-> PyInt(1), params |-> PyStr(TxtA1)],
           [owners |-> None]}

\* the bodies {"<key>": x} for x in payloads
OkBodies(payloads) == {Body(TRUE, TRUE, Absent, Absent, TRUE, x) : x \in payloads}

\* the bodies {"message": m}
MsgBodies == {Body(TRUE, TRUE, m, Absent, FALSE, Absent) : m \in Messages}

\* response.json().get(key) for the key an operation reads:
\* [raised, exc, value]
JsonGet(body) ==
    IF ~body.parsable THEN [raised |-> TRUE, exc |-> "JSONDecodeError", value |-> Absent, has |-> FALSE]
    ELSE IF ~body.dict THEN [raised |-> TRUE, exc |-> "AttributeError", value |-> Absent, has |-> FALSE]
    ELSE [raised |-> FALSE, exc |-> "", value |-> body.payload, has |-> body.has]

----------------------------------------------------------------------------
(* ObjectFactories: the operations as functions of the object, the cache   *)
(* and the responses the transport gives.  Each yields how the call ends   *)
(* (out), what it returns, the requests it issued (reqs) and the new       *)
(* state of what it mutates.                                               *)

NotCached == [cached |-> FALSE, dict |-> FALSE, doc |-> EmptyJson]

\* metadata documents: _info answers with column descriptors
DocFull == [add_columns |-> <<[name |-> "name"], [name |-> "params"], [name |-> "owners"]>>,
            edit_columns |-> <<[name |-> "name"]>>]
DocEdit == [edit_columns |-> <<[name |-> "params"], [name |-> "id"]>>]
InfoDocs == {DocFull, DocEdit}

\* the document a body decodes to
DocOf(body) == IF body.has THEN body.payload ELSE EmptyJson

\* _infos as a plain property: every access issues the request
_infos_property(cache, response) ==
    LET st == IF response.status # 200 THEN raise_for_status(response) ELSE Returned
        req == <<"GET _info">>
        f == HTTPFails(response.status)
    IN IF st.raised
       THEN [out |-> st, cache |-> cache, reqs |-> req, failing |-> f]
       ELSE IF ~response.body.parsable
       THEN [out |-> Raise("JSONDecodeError", Absent), cache |-> cache,
             reqs |-> req, failing |-> f]
       ELSE [out |-> Returned,
             cache |-> [cached |-> TRUE, dict |-> response.body.dict,
                        doc |-> DocOf(response.body)],
             reqs |-> req, failing |-> f]

\* the cached_property _infos: a hit returns the cached document; a miss
\* issues the request and caches what it returns, unless it raises
_infos(cache, response) ==
    IF cache.cached
    THEN [out |-> Returned, cache |-> cache, reqs |-> <<>>, failing |-> FALSE]
    ELSE LET st == IF response.status # 200 THEN raise_for_status(response) ELSE Returned
             req == <<"GET _info">>
             f == HTTPFails(response.status)
         IN IF st.raised
            THEN [out |-> st, cache |-> cache, reqs |-> req, failing |-> f]
            ELSE IF ~response.body.parsable
            THEN [out |-> Raise("JSONDecodeError", Absent), cache |-> cache,
                  reqs |-> req, failing |-> f]
            ELSE [out |-> Returned,
                  cache |-> [cached |-> TRUE, dict |-> response.body.dict,
                             doc |-> DocOf(response.body)],
                  reqs |-> req, failing |-> f]

\* [e.get("name") for e in self._infos.get(key, [])]
columns_of(cache, response, key) ==
    LET r == _infos(cache, response) IN
    IF r.out.raised THEN [out |-> r.out, cache |-> r.cache, reqs |-> r.reqs,
                          failing |-> r.failing, columns |-> <<>>]
    ELSE IF ~r.cache.dict
    THEN [out |-> Raise("AttributeError", Absent), cache |-> r.cache, reqs |-> r.reqs,
          failing |-> r.failing, columns |-> <<>>]
    ELSE [out |-> Returned, cache |-> r.cache, reqs |-> r.reqs, failing |-> r.failing,
          columns |-> IF key \in DOMAIN r.cache.doc
                      THEN [i \in 1..Len(r.cache.doc[key]) |-> r.cache.doc[key][i].name]
                      ELSE <<>>]

add_columns(cache, response) == columns_of(cache, response, "add_columns")
edit_columns(cache, response) == columns_of(cache, response, "edit_columns")

\* ObjectFactories.get
get(id, response) ==
    LET st == raise_for_status(response)
        j == JsonGet(response.body)
    IN IF st.raised THEN [out |-> st, obj |-> NoObj]
       ELSE IF j.raised THEN [out |-> Raise(j.exc, Absent), obj |-> NoObj]
       ELSE IF ~j.has THEN [out |-> Raise("TypeError", Absent), obj |-> NoObj]
       ELSE LET object_json == [k \in DOMAIN j.value \cup {"id"} |->
                                    IF k = "id" THEN PyInt(id) ELSE j.value[k]]
                c == from_json(object_json)
            IN IF c.raised THEN [out |-> Raise(c.exc, Absent), obj |-> NoObj]
               ELSE [out |-> Returned,
                     obj |-> [c.obj EXCEPT !.parent = TRUE]]

RECURSIVE find_loop(_, _, _)
find_loop(result, i, objects) ==
    IF i > Len(result) THEN [out |-> Returned, objects |-> objects]
    ELSE LET c == from_json(result[i]) IN
         IF c.raised THEN [out |-> Raise(c.exc, Absent), objects |-> <<>>]
         ELSE find_loop(result, i + 1,
                        Append(objects, [c.obj EXCEPT !.parent = TRUE]))

\* ObjectFactories.find
find(response) ==
    LET st == raise_for_status(response)
        j == JsonGet(response.body)
    IN IF st.raised THEN [out |-> st, objects |-> <<>>]
       ELSE IF j.raised THEN [out |-> Raise(j.exc, Absent), objects |-> <<>>]
       ELSE IF ~j.has THEN [out |-> Raise("TypeError", Absent), objects |-> <<>>]
       ELSE find_loop(j.value, 1, <<>>)

\* find_one that takes the last object of the list
find_one_last(response) ==
    LET r == find(response) IN
    IF r.out.raised THEN [out |-> r.out, obj |-> NoObj]
    ELSE IF Len(r.objects) = 0 THEN [out |-> Raise("NotFound", Absent), obj |-> NoObj]
    ELSE [out |-> Returned, obj |-> r.objects[Len(r.objects)]]

\* ObjectFactories.find_one
find_one(response) ==
    LET r == find(response) IN
    IF r.out.raised THEN [out |-> r.out, obj |-> NoObj]
    ELSE IF Len(r.objects) = 0 THEN [out |-> Raise("NotFound", Absent), obj |-> NoObj]
    ELSE [out |-> Returned, obj |-> r.objects[1]]

\* ObjectFactories.count
count(response) ==
    LET st == raise_for_status(response) IN
    IF st.raised THEN [out |-> st, value |-> Absent]
    ELSE IF ~response.body.parsable THEN [out |-> Raise("JSONDecodeError", Absent), value |-> Absent]
    ELSE IF ~response.body.dict THEN [out |-> Raise("TypeError", Absent), value |-> Absent]
    ELSE IF ~response.body.has THEN [out |-> Raise("KeyError", Absent), value |-> Absent]
    ELSE [out |-> Returned, value |-> response.body.payload]

\* add that binds the object and returns the id, but does not set obj.id
add_keeps_id(obj, cache, info, response) ==
    LET c == add_columns(cache, info)
        o == to_json(obj, c.columns)
        st == raise_for_status(response)
        j == JsonGet(response.body)
        reqs == Append(c.reqs, "POST")
        f == c.failing \/ HTTPFails(response.status)
    IN IF c.out.raised
       THEN [out |-> c.out, value |-> Absent, obj |-> obj, cache |-> c.cache,
             reqs |-> c.reqs, failing |-> c.failing, sent |-> EmptyJson]
       ELSE IF st.raised \/ j.raised
       THEN [out |-> IF st.raised THEN st ELSE Raise(j.exc, Absent), value |-> Absent,
             obj |-> obj, cache |-> c.cache, reqs |-> reqs, failing |-> f, sent |-> o]
       ELSE [out |-> Returned, value |-> IF j.has THEN j.value ELSE None,
             obj |-> [obj EXCEPT !.parent = TRUE],
             cache |-> c.cache, reqs |-> reqs, failing |-> f, sent |-> o]

\* ObjectFactories.add
add(obj, cache, info, response) ==
    LET c == add_columns(cache, info)
        o == to_json(obj, c.columns)
        st == raise_for_status(response)
        j == JsonGet(response.body)
        reqs == Append(c.reqs, "POST")
        f == c.failing \/ HTTPFails(response.status)
    IN IF c.out.raised
       THEN [out |-> c.out, value |-> Absent, obj |-> obj, cache |-> c.cache,
             reqs |-> c.reqs, failing |-> c.failing, sent |-> EmptyJson]
       ELSE IF st.raised
       THEN [out |-> st, value |-> Absent, obj |-> obj, cache |-> c.cache,
             reqs |-> reqs, failing |-> f, sent |-> o]
       ELSE IF j.raised
       THEN [out |-> Raise(j.exc, Absent), value |-> Absent, obj |-> obj, cache |-> c.cache,
             reqs |-> reqs, failing |-> f, sent |-> o]
       ELSE LET id == IF j.has THEN j.value ELSE None IN
            [out |-> Returned, value |-> id,
             obj |-> [obj EXCEPT !.id = id, !.parent = TRUE],
             cache |-> c.cache, reqs |-> reqs, failing |-> f, sent |-> o]

\* ObjectFactories.delete
delete(id, response) ==
    LET st == raise_for_status(response) IN
    IF st.raised THEN [out |-> st, value |-> Absent]
    ELSE IF ~response.body.parsable THEN [out |-> Raise("JSONDecodeError", Absent), value |-> Absent]
    ELSE IF ~response.body.dict THEN [out |-> Raise("AttributeError", Absent), value |-> Absent]
    ELSE [out |-> Returned, value |-> PyBool(GetMessage(response.body) = PyStr("OK"))]

\* ObjectFactories.import_file, for a file that can be read
import_file(response) ==
    LET st == raise_for_status(response) IN
    IF st.raised THEN [out |-> st, value |-> Absent]
    ELSE IF ~response.body.parsable THEN [out |-> Raise("JSONDecodeError", Absent), value |-> Absent]
    ELSE [out |-> Returned, value |-> GetMessage(response.body)]

\* ObjectFactories.test_connection
test_connection(obj, response) ==
    IF ~response.body.parsable THEN [out |-> Raise("JSONDecodeError", Absent), value |-> Absent]
    ELSE IF ~response.body.dict THEN [out |-> Raise("AttributeError", Absent), value |-> Absent]
    ELSE [out |-> Returned, value |-> PyBool(GetMessage(response.body) = PyStr("OK"))]

----------------------------------------------------------------------------
(* Bulk export: content types, YAML and pretty JSON.                       *)

ContentTypes == {"application/text", " application/text; charset=utf-8 ",
                 "application/zip", "application/json"}

\* str.strip()
strip(ct) ==
    IF ct = " application/text; charset=utf-8 " THEN "application/text; charset=utf-8" ELSE ct

\* str.startswith(prefix), for the two prefixes export tests
startswith(ct, prefix) ==
    \/ prefix = "application/text"
       /\ ct \in {"application/text", "application/text; charset=utf-8"}
    \/ prefix = "application/zip" /\ ct = "application/zip"

\* export bodies: payload is the raw content (response.text / response.content)
XBodyYaml == Body(FALSE, FALSE, Absent, Absent, TRUE, PyStr(TxtYamlA1))
XBodyJson == Body(TRUE, TRUE, Absent, Absent, TRUE, PyStr(TxtA1))
XBodyZip == Body(FALSE, FALSE, Absent, Absent, TRUE, ZipBytes)
ExportBodies == {XBodyYaml, XBodyJson, XBodyZip}
ExportResponses == [status : Statuses, ctype : ContentTypes, body : ExportBodies]

\* yaml.load(text, Loader=yaml.FullLoader)
yaml_load(raw) ==
    IF raw.k = "str" /\ raw.s \in {TxtYamlA1, TxtA1}
    THEN [raised |-> FALSE, exc |-> "", value |-> DictA1]
    ELSE IF raw.k = "str" /\ raw.s = TxtEmptyObj
    THEN [raised |-> FALSE, exc |-> "", value |-> EmptyDict]
    ELSE [raised |-> TRUE, exc |-> "YAMLError", value |-> Absent]

\* yaml.dump(data, default_flow_style=False)
yaml_dump(v) == IF v = DictA1 THEN "a: 1\n" ELSE "{}\n"

\* json.dump(data, ensure_ascii=False, indent=4)
json_dump_indent(v) == IF v = DictA1 THEN "{\n    \"a\": 1\n}" ELSE "{}"

\* ObjectFactories.export: f is the file at path before the call
export(response, f) ==
    LET st == raise_for_status(response)
        content_type == strip(response.ctype)
        raw == response.body.payload
        isText == startswith(content_type, "application/text")
        y == yaml_load(raw)
        f1 == IF isText THEN [fmt |-> "yaml", data |-> PyStr(yaml_dump(y.value))] ELSE f
        w1 == IF isText THEN 1 ELSE 0
        j == loads(raw)
    IN IF st.raised THEN [out |-> st, value |-> Absent, file |-> f, writes |-> 0]
       ELSE IF isText /\ y.raised
       THEN [out |-> Raise(y.exc, Absent), value |-> Absent, file |-> f, writes |-> 0]
       ELSE IF startswith(content_type, "application/zip")
       THEN [out |-> Returned, value |-> raw,
             file |-> [fmt |-> "bytes", data |-> raw], writes |-> w1 + 1]
       ELSE IF ~response.body.parsable \/ j.raised
       THEN [out |-> Raise("JSONDecodeError", Absent), value |-> Absent,
             file |-> f1, writes |-> w1]
       ELSE [out |-> Returned, value |-> j.value,
             file |-> [fmt |-> "json", data |-> PyStr(json_dump_indent(j.value))],
             writes |-> w1 + 1]

----------------------------------------------------------------------------
(* Object: the operations that reach the network through _parent.          *)

\* the error of self._parent.<attr> when _parent is None
Unbound(obj) == [out |-> Raise("AttributeError", Absent), value |-> Absent, obj |-> obj,
                 reqs |-> <<>>, failing |-> FALSE]

\* Object.fetch
fetch(obj, response) ==
    LET b == response.body
        req == <<"GET">>
        f == HTTPFails(response.status)
    IN IF ~obj.parent THEN Unbound(obj)
       ELSE IF ~b.parsable
       THEN [out |-> Raise("JSONDecodeError", Absent), value |-> Absent, obj |-> obj,
             reqs |-> req, failing |-> f]
       ELSE IF ~b.dict \/ ~b.has
       THEN [out |-> Raise("AttributeError", Absent), value |-> Absent, obj |-> obj,
             reqs |-> req, failing |-> f]
       ELSE [out |-> Returned, value |-> None,
             obj |-> [k \in DOMAIN obj |->
                        IF k \in field_names /\ k \in DOMAIN b.payload
                        THEN b.payload[k] ELSE obj[k]],
             reqs |-> req, failing |-> f]

\* Object.save
save(obj, cache, info, response) ==
    LET c == edit_columns(cache, info)
        o == to_json(obj, c.columns)
        st == raise_for_status(response)
    IN IF ~obj.parent
       THEN [out |-> Raise("AttributeError", Absent), cache |-> cache, reqs |-> <<>>,
             failing |-> FALSE, sent |-> EmptyJson]
       ELSE IF c.out.raised
       THEN [out |-> c.out, cache |-> c.cache, reqs |-> c.reqs, failing |-> c.failing,
             sent |-> EmptyJson]
       ELSE [out |-> st, cache |-> c.cache, reqs |-> Append(c.reqs, "PUT"),
             failing |-> c.failing \/ HTTPFails(response.status), sent |-> o]

\* delete that reaches the collection without the object's _parent
obj_delete_unguarded(obj, response) ==
    LET r == delete(obj.id, response) IN
    [out |-> r.out, value |-> r.value, obj |-> obj, reqs |-> <<"DELETE">>,
     failing |-> HTTPFails(response.status)]

\* Object.delete
obj_delete(obj, response) ==
    LET r == delete(obj.id, response) IN
    IF ~obj.parent THEN Unbound(obj)
    ELSE [out |-> r.out, value |-> r.value, obj |-> obj, reqs |-> <<"DELETE">>,
          failing |-> HTTPFails(response.status)]

\* Object.export: f is the file at path before the call
obj_export(obj, exportable, response, f) ==
    LET st == raise_for_status(response) IN
    IF ~exportable
    THEN [out |-> Raise("NotImplementedError", Absent), file |-> f, writes |-> 0,
          reqs |-> <<>>, failing |-> FALSE]
    ELSE IF ~obj.parent
    THEN [out |-> Raise("AttributeError", Absent), file |-> f, writes |-> 0,
          reqs |-> <<>>, failing |-> FALSE]
    ELSE IF st.raised
    THEN [out |-> st, file |-> f, writes |-> 0, reqs |-> <<"GET">>,
          failing |-> HTTPFails(response.status)]
    ELSE [out |-> Returned, file |-> [fmt |-> "text", data |-> response.body.payload],
          writes |-> 1, reqs |-> <<"GET">>, failing |-> HTTPFails(response.status)]

----------------------------------------------------------------------------
(* State.                                                                  *)

MaxEntities == 2
MaxInfoRequests == 2

VARIABLES
    entities,       \* the Object instances the caller holds, by handle 1..Len
    EXPORTABLE,     \* the class attribute of the collection's base_object
    infos,          \* the cached_property _infos: NotCached or the document
    infoRequests,   \* number of _info requests issued so far
    file,           \* the content of the file at the export path
    last            \* the last call: what it was given and how it ended

vars == <<entities, EXPORTABLE, infos, infoRequests, file, last>>

NoFile == [fmt |-> "none", data |-> Absent]

\* the record of a call: op on the object with handle h (0: none); failing:
\* a response it consumed had a failing status; info: the status of the
\* _info response it consumed (0: none); seen: what the server sent
Call(op, h, failing, out, value, seen, reqs, info, writes) ==
    [op |-> op, h |-> h, failing |-> failing, raised |-> out.raised, exc |-> out.exc,
     carried |-> out.carried, value |-> value, seen |-> seen, reqs |-> reqs,
     info |-> info, writes |-> writes]

Init ==
    /\ entities = <<>>
    /\ EXPORTABLE = FALSE
    /\ infos = NotCached
    /\ infoRequests = 0
    /\ file = NoFile
    /\ last = Call("init", 0, FALSE, Returned, Absent, Absent, <<>>, 0, 0)

Handles == 1..Len(entities)

InfoBodies ==
    {Body(FALSE, FALSE, Absent, Absent, FALSE, Absent),
     Body(TRUE, TRUE, PyStr("bad field"), Absent, FALSE, Absent)}
    \cup OkBodies(InfoDocs)

\* a call that reads _infos may issue one more _info request
MayAskInfo == infos.cached \/ infoRequests < MaxInfoRequests
InfoStatus(reqs, info) == IF Len(reqs) > 0 /\ reqs[1] = "GET _info" THEN info.status ELSE 0
InfoCount(reqs) == IF Len(reqs) > 0 /\ reqs[1] = "GET _info" THEN 1 ELSE 0

\* the value of the key an operation reads in a body, None when it is not there
Sent(body) == IF body.parsable /\ body.dict /\ body.has THEN body.payload ELSE None

----------------------------------------------------------------------------
(* Construction by the caller.                                             *)

\* cls(**kw)
Construct(kw) ==
    LET r == construct(kw) IN
    /\ Len(entities) < MaxEntities
    /\ entities' = IF r.raised THEN entities ELSE Append(entities, r.obj)
    /\ last' = Call("construct", IF r.raised THEN 0 ELSE Len(entities) + 1, FALSE,
                    IF r.raised THEN Raise(r.exc, Absent) ELSE Returned,
                    Absent, Absent, <<>>, 0, 0)
    /\ UNCHANGED <<EXPORTABLE, infos, infoRequests, file>>

\* cls.from_json(json)
FromJson(json) ==
    LET r == from_json(json) IN
    /\ Len(entities) < MaxEntities
    /\ entities' = IF r.raised THEN entities ELSE Append(entities, r.obj)
    /\ last' = Call("from_json", IF r.raised THEN 0 ELSE Len(entities) + 1, FALSE,
                    IF r.raised THEN Raise(r.exc, Absent) ELSE Returned,
                    Absent, Absent, <<>>, 0, 0)
    /\ UNCHANGED <<EXPORTABLE, infos, infoRequests, file>>

----------------------------------------------------------------------------
(* Calls on the collection.                                                *)

\* ObjectFactories._handle_reponse_status(response)
HandleResponseStatus(response) ==
    /\ last' = Call("_handle_reponse_status", 0, HTTPFails(response.status),
                    raise_for_status(response), Absent, response, <<>>, 0, 0)
    /\ UNCHANGED <<entities, EXPORTABLE, infos, infoRequests, file>>

\* collection.add_columns / collection.edit_columns
Columns(key, info) ==
    LET r == IF key = "add_columns" THEN add_columns(infos, info)
             ELSE edit_columns(infos, info) IN
    /\ MayAskInfo
    /\ infos' = r.cache
    /\ infoRequests' = infoRequests + InfoCount(r.reqs)
    /\ last' = Call(key, 0, r.failing, r.out, Absent, r.columns, r.reqs,
                    InfoStatus(r.reqs, info), 0)
    /\ UNCHANGED <<entities, EXPORTABLE, file>>

\* collection.get(id)
Get(id, response) ==
    LET r == get(id, response) IN
    /\ Len(entities) < MaxEntities
    /\ entities' = IF r.out.raised THEN entities ELSE Append(entities, r.obj)
    /\ last' = Call("get", IF r.out.raised THEN 0 ELSE Len(entities) + 1,
                    HTTPFails(response.status), r.out, Absent, Absent, <<"GET">>, 0, 0)
    /\ UNCHANGED <<EXPORTABLE, infos, infoRequests, file>>

\* collection.find(**filters): the caller keeps the objects of the list
Find(response) ==
    LET r == find(response) IN
    /\ Len(entities) + Len(r.objects) <= MaxEntities
    /\ entities' = entities \o r.objects
    /\ last' = Call("find", 0, HTTPFails(response.status), r.out, PyInt(Len(r.objects)),
                    Absent, <<"GET">>, 0, 0)
    /\ UNCHANGED <<EXPORTABLE, infos, infoRequests, file>>

\* collection.find_one(**filters): the caller keeps the object returned;
\* seen is what find gives for the same response
FindOne(response) ==
    LET r == find_one(response)
        l == find(response)
    IN
    /\ Len(entities) < MaxEntities
    /\ entities' = IF r.out.raised THEN entities ELSE Append(entities, r.obj)
    /\ last' = Call("find_one", IF r.out.raised THEN 0 ELSE Len(entities) + 1,
                    HTTPFails(response.status), r.out, Absent,
                    [raised |-> l.out.raised, objects |-> l.objects], <<"GET">>, 0, 0)
    /\ UNCHANGED <<EXPORTABLE, infos, infoRequests, file>>

\* collection.count()
Count(response) ==
    LET r == count(response) IN
    /\ last' = Call("count", 0, HTTPFails(response.status), r.out, r.value, Absent,
                    <<"GET">>, 0, 0)
    /\ UNCHANGED <<entities, EXPORTABLE, infos, infoRequests, file>>

\* collection.add(entities[h])
Add(h, info, response) ==
    LET r == add(entities[h], infos, info, response) IN
    /\ MayAskInfo
    /\ entities' = [entities EXCEPT ![h] = r.obj]
    /\ infos' = r.cache
    /\ infoRequests' = infoRequests + InfoCount(r.reqs)
    /\ last' = Call("add", h, r.failing, r.out, r.value, Sent(response.body), r.reqs,
                    InfoStatus(r.reqs, info), 0)
    /\ UNCHANGED <<EXPORTABLE, file>>

\* collection.delete(id)
Delete(id, response) ==
    LET r == delete(id, response) IN
    /\ last' = Call("delete", 0, HTTPFails(response.status), r.out, r.value, Absent,
                    <<"DELETE">>, 0, 0)
    /\ UNCHANGED <<entities, EXPORTABLE, infos, infoRequests, file>>

\* collection.export(ids, path)
Export(response) ==
    LET r == export(response, file) IN
    /\ file' = r.file
    /\ last' = Call("export", 0, HTTPFails(response.status), r.out, r.value,
                    [ctype |-> response.ctype, raw |-> response.body.payload],
                    <<"GET">>, 0, r.writes)
    /\ UNCHANGED <<entities, EXPORTABLE, infos, infoRequests>>

\* collection.import_file(file_path)
ImportFile(response) ==
    LET r == import_file(response) IN
    /\ last' = Call("import_file", 0, HTTPFails(response.status), r.out, r.value, Absent,
                    <<"POST">>, 0, 0)
    /\ UNCHANGED <<entities, EXPORTABLE, infos, infoRequests, file>>

\* collection.test_connection(entities[h])
TestConnection(h, response) ==
    LET r == test_connection(entities[h], response) IN
    /\ last' = Call("test_connection", h, HTTPFails(response.status), r.out, r.value,
                    Absent, <<"POST">>, 0, 0)
    /\ UNCHANGED <<entities, EXPORTABLE, infos, infoRequests, file>>

----------------------------------------------------------------------------
(* Calls on an object.                                                     *)

\* entities[h].fetch()
Fetch(h, response) ==
    LET r == fetch(entities[h], response) IN
    /\ entities' = [entities EXCEPT ![h] = r.obj]
    /\ last' = Call("fetch", h, r.failing, r.out, Absent, Absent, r.reqs, 0, 0)
    /\ UNCHANGED <<EXPORTABLE, infos, infoRequests, file>>

\* entities[h].save()
Save(h, info, response) ==
    LET r == save(entities[h], infos, info, response) IN
    /\ MayAskInfo
    /\ infos' = r.cache
    /\ infoRequests' = infoRequests + InfoCount(r.reqs)
    /\ last' = Call("save", h, r.failing, r.out, Absent, Absent, r.reqs,
                    InfoStatus(r.reqs, info), 0)
    /\ UNCHANGED <<entities, EXPORTABLE, file>>

\* entities[h].delete()
ObjDelete(h, response) ==
    LET r == obj_delete(entities[h], response) IN
    /\ last' = Call("obj_delete", h, r.failing, r.out, r.value, Absent, r.reqs, 0, 0)
    /\ UNCHANGED <<entities, EXPORTABLE, infos, infoRequests, file>>

\* entities[h].export(path)
ObjExport(h, response) ==
    LET r == obj_export(entities[h], EXPORTABLE, response, file) IN
    /\ file' = r.file
    /\ last' = Call("obj_export", h, r.failing, r.out, Absent, Absent, r.reqs, 0, r.writes)
    /\ UNCHANGED <<entities, EXPORTABLE, infos, infoRequests>>

----------------------------------------------------------------------------

\* cls.from_json(entities[h].to_json(columns))
RoundTrip(h, columns) ==
    LET o == to_json(entities[h], columns)
        r == from_json(o)
    IN
    /\ Len(entities) < MaxEntities
    /\ entities' = IF r.raised THEN entities ELSE Append(entities, r.obj)
    /\ last' = Call("round_trip", IF r.raised THEN 0 ELSE Len(entities) + 1, FALSE,
                    IF r.raised THEN Raise(r.exc, Absent) ELSE Returned,
                    Absent, [src |-> h, columns |-> columns, sent |-> o], <<>>, 0, 0)
    /\ UNCHANGED <<EXPORTABLE, infos, infoRequests, file>>

----------------------------------------------------------------------------

\* the inputs of the specifications
S2 == {200, 404}
KwargsOne == {[name |-> PyStr("A")]}
ErrBodies3 ==
    {Body(FALSE, FALSE, Absent, Absent, FALSE, Absent),
     Body(TRUE, TRUE, PyStr("bad field"), Absent, FALSE, Absent),
     Body(TRUE, TRUE, Absent, ErrList, FALSE, Absent)}
R(bodies) == [status : S2, body : bodies]
RowLists == {<<>>, <<RowA>>, <<RowNull, RowA>>}
InfoOne == {[status |-> 200, body |-> Body(TRUE, TRUE, Absent, Absent, TRUE, DocFull)]}
InfoFor(set) == IF infos.cached THEN InfoOne ELSE set
ExportTwo == {[status |-> 200, ctype |-> "application/zip", body |-> XBodyZip],
              [status |-> 404, ctype |-> "application/json", body |-> XBodyJson]}

----------------------------------------------------------------------------
(* The collection: every operation of ObjectFactories, on objects the      *)
(* caller built or was given.                                              *)

\* the responses given to an operation that reads payloads: failing ones
\* with every error body, passing ones with a payload or an unreadable body
RespFor(bodies) ==
    [status : {404}, body : ErrBodies3]
    \cup [status : {200}, body : bodies \cup {Body(FALSE, FALSE, Absent, Absent, FALSE, Absent)}]

Next ==
    \/ \E kw \in KwargsOne : Construct(kw)
    \/ \E response \in RespFor(OkBodies({RowA})) : Get(1, response)
    \/ \E response \in RespFor(OkBodies(RowLists)) : Find(response)
    \/ \E response \in RespFor(OkBodies(RowLists)) : FindOne(response)
    \/ \E response \in RespFor(OkBodies({PyInt(1)})) : Count(response)
    \/ \E h \in Handles, info \in InfoFor(InfoOne),
          response \in RespFor(OkBodies({PyInt(1)})) : Add(h, info, response)
    \/ \E response \in RespFor(MsgBodies) : Delete(1, response)
    \/ \E response \in ExportTwo : Export(response)
    \/ \E response \in RespFor(MsgBodies) : ImportFile(response)
    \/ \E h \in Handles, response \in RespFor(MsgBodies) : TestConnection(h, response)

Spec == Init /\ [][Next]_vars

----------------------------------------------------------------------------
(* Properties of the collection.                                           *)

CollectionOps == {"get", "find", "find_one", "count", "add", "delete", "export",
                  "import_file", "test_connection"}

\* C2: a Collection operation that was given a failing status raises, it
\* never returns a value
FailingStatusAlwaysRaises ==
    last.op \in CollectionOps /\ last.failing => last.raised

\* the same, of every Collection operation but test_connection
FailingStatusRaisesButTestConnection ==
    last.op \in CollectionOps \ {"test_connection"} /\ last.failing => last.raised

\* C9: find_one raises NotFound when find gives an empty list, and returns
\* the first object of find's list, bound to the collection, when it gives
\* one or more
FindOneFirstOrNotFound ==
    last.op = "find_one" /\ ~last.seen.raised =>
        IF Len(last.seen.objects) = 0
        THEN last.raised /\ last.exc = "NotFound"
        ELSE /\ ~last.raised
             /\ last.h = Len(entities)
             /\ entities[last.h] = last.seen.objects[1]
             /\ entities[last.h].parent

FindOneOfTwo ==
    /\ last.op = "find_one"
    /\ ~last.raised
    /\ Len(last.seen.objects) = 2
    /\ last.seen.objects[1] # last.seen.objects[2]
    /\ entities[last.h] = last.seen.objects[1]

----------------------------------------------------------------------------
(* Error translation: _handle_reponse_status on every response.            *)

StatusCodes == {200, 201, 302, 400, 404, 422, 500, 503}
StatusBodies ==
    {Body(FALSE, FALSE, Absent, Absent, FALSE, Absent),
     Body(TRUE, FALSE, Absent, Absent, FALSE, Absent)}
    \cup {Body(TRUE, TRUE, m, e, FALSE, Absent) :
            m \in Messages \cup {Absent, None}, e \in {Absent, ErrList, None}}

NextStatus ==
    \E response \in [status : StatusCodes, body : StatusBodies] :
        HandleResponseStatus(response)

SpecStatus == Init /\ [][NextStatus]_vars

\* C1: raise_for_status raises nothing when the status check passes; when it
\* fails it raises BadRequestError with the body's message if the body has a
\* readable "message" (also when it has "errors"), else ComplexBadRequestError
\* with the body's errors if it has a readable "errors", else the transport's
\* own error
RaiseForStatusPriority ==
    last.op = "_handle_reponse_status" =>
        LET r == last.seen
            readable == r.body.parsable /\ r.body.dict
            hasMessage == readable /\ r.body.message # Absent
            hasErrors == readable /\ r.body.errors # Absent
        IN IF ~(r.status >= 400 /\ r.status < 600) THEN ~last.raised
           ELSE /\ last.raised
                /\ hasMessage =>
                     last.exc = "BadRequestError" /\ last.carried = r.body.message
                /\ ~hasMessage /\ hasErrors =>
                     last.exc = "ComplexBadRequestError" /\ last.carried = r.body.errors
                /\ ~hasMessage /\ ~hasErrors =>
                     last.exc = "HTTPError" /\ last.carried = Absent

MessageBeatsErrors ==
    /\ last.op = "_handle_reponse_status"
    /\ last.seen.status = 422
    /\ last.seen.body.message = PyStr("bad field")
    /\ last.seen.body.errors = ErrList
    /\ last.exc = "BadRequestError"
    /\ last.carried = PyStr("bad field")

----------------------------------------------------------------------------
(* The metadata cache: add_columns, edit_columns, add and save.            *)

InfoResponses3 == [status : {200, 201, 404}, body : InfoBodies]
MsgBody == Body(TRUE, TRUE, PyStr("bad field"), Absent, FALSE, Absent)

NextInfo ==
    \/ \E kw \in KwargsOne : Construct(kw)
    \/ \E response \in [status : {200}, body : OkBodies({RowA})] : Get(1, response)
    \/ \E key \in {"add_columns", "edit_columns"}, info \in InfoFor(InfoResponses3) :
            Columns(key, info)
    \/ \E h \in Handles, info \in InfoFor(InfoResponses3),
          response \in R({MsgBody} \cup OkBodies({PyInt(1)})) : Add(h, info, response)
    \/ \E h \in Handles, info \in InfoFor(InfoResponses3), response \in R({MsgBody}) :
            Save(h, info, response)

SpecInfo == Init /\ [][NextInfo]_vars

\* C3, as claimed: the _info request is issued at most once in total
InfoRequestedAtMostOnce == infoRequests <= 1

\* the names of the columns a document lists under key
Names(doc, key) ==
    IF key \in DOMAIN doc THEN [i \in 1..Len(doc[key]) |-> doc[key][i].name] ELSE <<>>

\* C3: once a metadata document is cached, no call issues an _info request
\* again, the cached document never changes, and add_columns and
\* edit_columns give the columns of that document
CachedInfosNeverRefetched ==
    [][infos.cached =>
          /\ infos' = infos
          /\ infoRequests' = infoRequests
          /\ last'.info = 0
          /\ \A i \in 1..Len(last'.reqs) : last'.reqs[i] # "GET _info"
          /\ last'.op \in {"add_columns", "edit_columns"} /\ infos.dict =>
                ~last'.raised /\ last'.seen = Names(infos.doc, last'.op)]_vars

InfosHitAfterFailure ==
    /\ infos.cached
    /\ infoRequests >= 2
    /\ last.op = "edit_columns"
    /\ last.reqs = <<>>
    /\ last.seen = <<"params", "id">>

\* C4: a call that got an _info response with a status other than 200
\* raises, issues no POST or PUT, and caches nothing
NonOkInfoIsHardFailure ==
    last.info \notin {0, 200} =>
        last.raised /\ last.reqs = <<"GET _info">> /\ ~infos.cached

----------------------------------------------------------------------------
(* The life of an object: built, given by the collection, added, fetched.  *)

\* the collection of an exportable Object class
InitObject ==
    /\ entities = <<>>
    /\ EXPORTABLE = TRUE
    /\ infos = NotCached
    /\ infoRequests = 0
    /\ file = NoFile
    /\ last = Call("init", 0, FALSE, Returned, Absent, Absent, <<>>, 0, 0)

GarbageBody == Body(FALSE, FALSE, Absent, Absent, FALSE, Absent)
OkMsgBody == Body(TRUE, TRUE, PyStr("OK"), Absent, FALSE, Absent)

NextObject ==
    \/ \E kw \in {[params |-> PyStr(TxtA1)], [params |-> DictA1]} : Construct(kw)
    \/ \E json \in {RowBad} : FromJson(json)
    \/ \E response \in [status : {200}, body : OkBodies({RowA})]
                       \cup {[status |-> 404, body |-> GarbageBody]} : Get(1, response)
    \/ \E response \in [status : {200}, body : OkBodies({<<RowA>>})] : Find(response)
    \/ \E response \in [status : {200}, body : OkBodies({<<RowA>>})] : FindOne(response)
    \/ \E h \in Handles, info \in InfoFor(InfoOne),
          response \in [status : {200}, body : OkBodies({PyInt(2)})]
                       \cup {[status |-> 404, body |-> MsgBody]} :
            Add(h, info, response)
    \/ \E h \in Handles,
          response \in [status : {200}, body : {GarbageBody} \cup OkBodies({RowA})] :
            Fetch(h, response)
    \/ \E h \in Handles, info \in InfoFor(InfoOne), response \in R({MsgBody}) :
            Save(h, info, response)
    \/ \E h \in Handles, response \in R({OkMsgBody}) : ObjDelete(h, response)
    \/ \E h \in Handles, response \in ExportTwo : ObjExport(h, response)

SpecObject == InitObject /\ [][NextObject]_vars

\* C6: in every state, the JSON-string field of every object holds a decoded
\* structure
JsonFieldsAlwaysDecoded ==
    \A h \in Handles : entities[h].params.k = "dict"

ObjectOps == {"fetch", "save", "obj_delete", "obj_export"}

\* C10: an object is bound exactly when it was returned by get, find or
\* find_one or was given to an add that returned (and it stays bound); and
\* fetch, save, delete and export (of an exportable type) on an unbound
\* object raise, issue no request and change no object
OwnershipProtocol ==
    [][/\ \A h \in 1..Len(entities') :
            entities'[h].parent <=>
                \/ h <= Len(entities) /\ entities[h].parent
                \/ h > Len(entities) /\ last'.op \in {"get", "find", "find_one"}
                \/ h <= Len(entities) /\ last'.op = "add" /\ ~last'.raised /\ last'.h = h
       /\ /\ last'.op \in ObjectOps
          /\ last'.op = "obj_export" => EXPORTABLE
          /\ ~entities[last'.h].parent
          => last'.raised /\ last'.reqs = <<>> /\ entities' = entities /\ file' = file]_vars

UnboundExportFails ==
    /\ last.op = "obj_export"
    /\ EXPORTABLE
    /\ ~entities[last.h].parent
    /\ last.raised
    /\ last.exc = "AttributeError"
    /\ last.reqs = <<>>

-----------------------------------------------------------------------------
(* Adding: objects the caller built or fetched, POSTed to a server that    *)
(* answers with an id, without one, with an undecodable body, or refuses.  *)

NextAdd ==
    \/ \E kw \in {[params |-> PyStr(TxtA1)], [name |-> PyStr("A")]} : Construct(kw)
    \/ \E response \in [status : {200}, body : OkBodies({RowA})] : Get(1, response)
    \/ \E h \in Handles, info \in InfoFor(InfoOne \cup {[status |-> 404, body |-> MsgBody]}),
          response \in [status : {200},
                        body : OkBodies({PyInt(2)}) \cup {OkMsgBody, GarbageBody}]
                       \cup {[status |-> 404, body |-> MsgBody]} :
            Add(h, info, response)

SpecAdd == Init /\ [][NextAdd]_vars

\* C8: an add that returns has changed the object it was given, in place:
\* its id is the id of the response (None when the response has none), it is
\* bound to the collection, the value returned is that id, its other fields
\* are as before, and the caller holds the same objects as before
AddMutatesInPlace ==
    [][last'.op = "add" /\ ~last'.raised =>
          /\ Len(entities') = Len(entities)
          /\ entities'[last'.h].id = last'.seen
          /\ entities'[last'.h].parent
          /\ last'.value = entities'[last'.h].id
          /\ entities'[last'.h].name = entities[last'.h].name
          /\ entities'[last'.h].params = entities[last'.h].params
          /\ \A g \in 1..Len(entities) : g # last'.h => entities'[g] = entities[g]]_vars

AddSetsServerId ==
    /\ last.op = "add"
    /\ ~last.raised
    /\ last.seen = PyInt(2)
    /\ last.value = PyInt(2)
    /\ entities[last.h].id = PyInt(2)
    /\ entities[last.h].parent

----------------------------------------------------------------------------
(* Bulk export.                                                            *)

\* the collection of an Object class that is exportable, or is not
InitExport ==
    /\ entities = <<>>
    /\ EXPORTABLE \in BOOLEAN
    /\ infos = NotCached
    /\ infoRequests = 0
    /\ file = NoFile
    /\ last = Call("init", 0, FALSE, Returned, Absent, Absent, <<>>, 0, 0)

NextExport ==
    \/ \E response \in ExportResponses : Export(response)
    \/ \E kw \in KwargsOne : Construct(kw)
    \/ \E response \in [status : {200}, body : OkBodies({RowA})] : Get(1, response)
    \/ \E h \in Handles,
          response \in [status : S2, ctype : {"application/text"}, body : {XBodyYaml}] :
            ObjExport(h, response)

SpecExport == InitExport /\ [][NextExport]_vars

\* the body of a response is what its content type announces
WellFormed(ctype, raw) ==
    IF startswith(strip(ctype), "application/text") THEN ~yaml_load(raw).raised
    ELSE IF startswith(strip(ctype), "application/zip") THEN TRUE
    ELSE ~loads(raw).raised

\* C5: an export of a successful response returns, has written the file
\* once, and the file holds: for application/text the YAML of the body
\* parsed as YAML, for application/zip the body itself, else the body
\* decoded as JSON and pretty-printed
ExportTakesOneBranch ==
    /\ last.op = "export"
    /\ ~last.failing
    /\ WellFormed(last.seen.ctype, last.seen.raw)
    => /\ ~last.raised
       /\ last.writes = 1
       /\ file = IF startswith(strip(last.seen.ctype), "application/text")
                 THEN [fmt |-> "yaml",
                       data |-> PyStr(yaml_dump(yaml_load(last.seen.raw).value))]
                 ELSE IF startswith(strip(last.seen.ctype), "application/zip")
                 THEN [fmt |-> "bytes", data |-> last.seen.raw]
                 ELSE [fmt |-> "json",
                       data |-> PyStr(json_dump_indent(loads(last.seen.raw).value))]

\* the same, of every content type but application/text
ExportTakesOneBranchButText ==
    /\ last.op = "export"
    /\ ~startswith(strip(last.seen.ctype), "application/text")
    => ExportTakesOneBranch

----------------------------------------------------------------------------
(* to_json followed by from_json.                                          *)

ColumnLists == {<<>>, <<"params">>, <<"name">>, <<"params", "name">>,
                <<"owners", "params", "id">>, <<"id", "name", "params">>,
                <<"id", "name", "params", "owners">>}

NextRoundTrip ==
    \/ \E kw \in Kwargs : Construct(kw)
    \/ \E response \in [status : {200}, body : OkBodies({RowA, RowNull})] : Get(1, response)
    \/ \E h \in Handles, response \in [status : {200}, body : OkBodies({RowA, RowNull})] :
            Fetch(h, response)
    \/ \E h \in Handles, columns \in ColumnLists : RoundTrip(h, columns)

SpecRoundTrip == Init /\ [][NextRoundTrip]_vars

JsonFieldsIn(columns) == Range(JSON_FIELDS) \subseteq Range(columns)

\* C7, as claimed: when columns holds every JSON-string field, the object
\* built from to_json(columns) has all declared fields equal to the original
RoundTripAllFields ==
    last.op = "round_trip" /\ JsonFieldsIn(last.seen.columns) =>
        /\ ~last.raised
        /\ Declared(entities[last.h]) = Declared(entities[last.seen.src])

\* C7: for every column list, the object built from to_json(columns) is
\* built without error, equals the original on every declared field that is
\* in columns, and holds the default (decoded, for a JSON-string field) on
\* every declared field that is not; so all declared fields are equal when
\* columns holds every declared field
RoundTripOnColumns ==
    last.op = "round_trip" =>
        /\ ~last.raised
        /\ \A f \in field_names :
              entities[last.h][f] =
                  IF f \in Range(last.seen.columns) THEN entities[last.seen.src][f]
                  ELSE IF f \in Range(JSON_FIELDS) THEN EmptyDict
                  ELSE Default(f)
        /\ field_names \subseteq Range(last.seen.columns) =>
              Declared(entities[last.h]) = Declared(entities[last.seen.src])

RoundTripOfRawField ==
    /\ last.op = "round_trip"
    /\ ~last.raised
    /\ field_names \subseteq Range(last.seen.columns)
    /\ entities[last.seen.src].params = PyStr(TxtA1)
    /\ entities[last.h].params = PyStr(TxtA1)
    /\ entities[last.h].name = PyStr("A")

====
